---- MODULE Spec2Model ----
(***************************************************************************)
(* Call Graph Explorer front end (frontend/src/App.jsx and its api module).*)
(* The React state of App, the debounced search effect, the asynchronous   *)
(* loadGraph calls and the pure rendering functions.  Backend answers are  *)
(* inputs: every response is chosen from a small set.                      *)
(***************************************************************************)
EXTENDS Bags, FiniteSets, Integers, Sequences, TLC

\* ------------------------------------------------------------------ bounds
MaxCalls == 2      \* loadGraph calls that may be suspended at an await
MaxEffects == 2    \* search effect instances with a timer or a request pending
TimeStep == 125    \* largest amount of time one Tick lets pass
MaxLen == 3        \* longest source text given to SourceView alone
MaxLine == 4       \* largest highlightLine given to SourceView alone

\* ------------------------------------------------------- program constants
SEARCH_DELAY == 250
DEFAULT_DEPTH == 2
DEFAULT_LIMIT == 60

\* --------------------------------------------------------------- the data
\* null / undefined of a node, of a node's file and of the source document
NoFile == ""
NoLine == 0
NoNode == [id |-> "", file |-> NoFile, line |-> NoLine]
NoSource == [loaded |-> FALSE, content |-> <<>>]

\* The nodes the backend knows, "A", "B" and "C": Node = {id, file|absent, line|absent}
FileOf(id) == CASE id = "A" -> "a.go" [] id = "B" -> "b.go" [] OTHER -> NoFile
LineOf(id) == CASE id = "A" -> 2 [] id = "B" -> 3 [] OTHER -> NoLine
NodeOf(id) == [id |-> id, file |-> FileOf(id), line |-> LineOf(id)]

\* GET /api/source?file= -> {content}: the text of a file, one character per element
ContentOf(file) ==
    IF file = "a.go" THEN <<"a", "\n", "x">> ELSE <<"b", "\n", "y", "\n", "z">>
SourceDocument(file) == [loaded |-> TRUE, content |-> ContentOf(file)]

Edge(s, t) == [source |-> s, target |-> t]
\* edge lists a neighborhood response may carry; the last one breaks the
\* backend contract (endpoint "Z" is not among the nodes)
EdgeLists ==
    { <<Edge("A", "B"), Edge("B", "A"), Edge("C", "A")>>,
      <<Edge("A", "B"), Edge("A", "C"), Edge("A", "C")>>,
      <<Edge("A", "Z")>> }
AllNodes == <<NodeOf("A"), NodeOf("B"), NodeOf("C")>>

\* GET /api/function/<id>/subgraph -> {root, nodes, edges}; root is the requested node
SubgraphResponses(functionId) ==
    { [root |-> NodeOf(functionId), nodes |-> AllNodes, edges |-> e] : e \in EdgeLists }

\* GET /api/functions?q= -> {results}
Queries == {"", "foo", "bar"}
SearchResponse(q) ==
    [results |-> CASE q = "foo" -> <<NodeOf("A")>>
                   [] q = "bar" -> <<NodeOf("B")>>
                   [] OTHER -> <<NodeOf("A"), NodeOf("B")>>]

\* non-2xx responses: status and body text
FailResponses ==
    { [status |-> 500, body |-> ""],
      [status |-> 404, body |-> ""],
      [status |-> 404, body |-> "not found"] }

\* a 2xx response; its body is JSON, kept apart as the data of the resolving action
OkResponse == [status |-> 200, body |-> ""]
Responses == FailResponses \cup {OkResponse}

\* mutant: the body of the response is dropped from the message
requestStatusOnly(res) ==
    IF res.status \in 200..299
    THEN [threw |-> FALSE, message |-> ""]
    ELSE [threw |-> TRUE, message |-> "Request failed: " \o ToString(res.status)]

\* request(): throws Error(text || `Request failed: ${status}`) unless res.ok
request(res) ==
    IF res.status \in 200..299
    THEN [threw |-> FALSE, message |-> ""]
    ELSE [threw |-> TRUE,
          message |-> IF res.body # "" THEN res.body
                      ELSE "Request failed: " \o ToString(res.status)]

\* mutant: the request is sent with the default parameters
fetchSubgraphDefaults(functionId, d, l) ==
    [id |-> functionId, depth |-> DEFAULT_DEPTH, limit |-> DEFAULT_LIMIT]

\* fetchSubgraph(functionId, depth, limit): the request it sends
fetchSubgraph(functionId, d, l) == [id |-> functionId, depth |-> d, limit |-> l]
NoRequest == [id |-> "", depth |-> 0, limit |-> 0]

\* what the user can type into the Depth and Max Nodes inputs
DepthTexts == { <<>>, <<"3">> }
LimitTexts == { <<"1", "0">> }

\* ---------------------------------------------------------------- helpers
Min(a, b) == IF a < b THEN a ELSE b
MapSeq(s, F(_)) == [i \in 1..Len(s) |-> F(s[i])]
BagRemove(B, e) == B (-) SetToBag({e})
BagAdd(B, e) == B (+) SetToBag({e})
\* the bag with every copy of e replaced by F(e), copies merged
BagMap(B, F(_)) ==
    LET img == { F(e) : e \in BagToSet(B) }
        Sum(S) == LET RECURSIVE sum(_)
                      sum(T) == IF T = {} THEN 0
                                ELSE LET x == CHOOSE y \in T : TRUE
                                     IN CopiesIn(x, B) + sum(T \ {x})
                  IN sum(S)
    IN [ r \in img |-> Sum({ e \in BagToSet(B) : F(e) = r }) ]

VARIABLES
    query, results, selected, graph, source, loading, depth, limit, error,
    effects,   \* bag of search effect instances: timer pending or request in flight
    calls,     \* bag of loadGraph calls suspended at an await
    window,    \* history of the debounce window opened by the last input:
               \*   elapsed: time passed since the search effect last ran
               \*   emitted: queries of the search requests sent since then
               \*   cancelled: the input found a timer pending and cleared it
    view,      \* what SourceView renders for source and selected
    latest,    \* the most recent loadGraph call and how its subgraph fetch ended (history)
    last       \* the step taken last (history)

vars == <<query, results, selected, graph, source, loading, depth, limit, error,
          effects, calls, view, window, latest, last>>

state == <<query, results, selected, graph, source, loading, depth, limit, error>>

\* history record of a step: the request it sent or the response it consumed
NoResponse == [status |-> 0, body |-> ""]
Event(op, msg, req) == [op |-> op, msg |-> msg, req |-> req, res |-> NoResponse]
Settle(op, res) ==
    [op |-> op, msg |-> request(res).message, req |-> NoRequest, res |-> res]

\* Number(e.target.value) for the text of a number input: "" is 0
Digit(c) ==
    CASE c = "0" -> 0 [] c = "1" -> 1 [] c = "2" -> 2 [] c = "3" -> 3 [] c = "4" -> 4
      [] c = "5" -> 5 [] c = "6" -> 6 [] c = "7" -> 7 [] c = "8" -> 8 [] c = "9" -> 9
RECURSIVE Digits(_)
Digits(text) ==
    IF text = <<>> THEN 0
    ELSE 10 * Digits(SubSeq(text, 1, Len(text) - 1)) + Digit(text[Len(text)])
Number(text) ==
    IF text # <<>> /\ text[1] = "-" THEN 0 - Digits(Tail(text)) ELSE Digits(text)

\* -------------------------------------------------------------- SourceView
\* content.split('\n')
RECURSIVE split(_)
split(content) ==
    IF \A i \in 1..Len(content) : content[i] # "\n"
    THEN <<content>>
    ELSE LET i == CHOOSE k \in 1..Len(content) :
                      content[k] = "\n" /\ \A j \in 1..(k - 1) : content[j] # "\n"
         IN <<SubSeq(content, 1, i - 1)>> \o split(SubSeq(content, i + 1, Len(content)))

\* mutant: the highlight is compared with the 0-based index
SourceViewZeroBased(content, highlightLine) ==
    IF content = <<>>
    THEN [empty |-> TRUE, rows |-> <<>>]
    ELSE LET lines == split(content)
         IN [empty |-> FALSE,
             rows |-> [idx \in 1..Len(lines) |->
                          [lineNumber |-> idx,
                           isHighlight |-> highlightLine = idx - 1,
                           text |-> IF lines[idx] # <<>> THEN lines[idx] ELSE <<" ">>]]]

\* SourceView({content, highlightLine}): the placeholder, or one numbered row per line
SourceView(content, highlightLine) ==
    IF content = <<>>
    THEN [empty |-> TRUE, rows |-> <<>>]
    ELSE LET lines == split(content)
         IN [empty |-> FALSE,
             rows |-> [idx \in 1..Len(lines) |->
                          LET lineNumber == idx
                          IN [lineNumber |-> lineNumber,
                              isHighlight |-> highlightLine = lineNumber,
                              text |-> IF lines[idx] # <<>> THEN lines[idx] ELSE <<" ">>]]]

\* <SourceView content={source?.content} highlightLine={selected?.line} /> of a render
Render == view' = SourceView(source'.content, selected'.line)

\* ------------------------------------------------------ the search effect
\* useEffect body: let active = true; handle = setTimeout(..., 250)
NewEffect(q) == [st |-> "timer", query |-> q, active |-> TRUE, remaining |-> SEARCH_DELAY]

\* mutant: the cleanup forgets `active = false`
DeactivateNot(E) == E

\* cleanup, `active = false`
Deactivate(E) == BagMap(E, LAMBDA e : [e EXCEPT !.active = FALSE])

\* mutant: the cleanup forgets clearTimeout
clearTimeoutNot(E) == E

\* cleanup, `clearTimeout(handle)`: a timer that has not fired never fires
clearTimeout(E) == [e \in { x \in BagToSet(E) : x.st # "timer" } |-> E[e]]

cleanup(E) == clearTimeout(Deactivate(E))

Timers == { e \in BagToSet(effects) : e.st = "timer" }
InFlightSearches == { e \in BagToSet(effects) : e.st = "inflight" }

Init ==
    /\ query = ""
    /\ results = <<>>
    /\ selected = NoNode
    /\ graph = [nodes |-> <<>>, links |-> <<>>]
    /\ source = NoSource
    /\ loading = FALSE
    /\ depth = DEFAULT_DEPTH
    /\ limit = DEFAULT_LIMIT
    /\ error = ""
    /\ effects = SetToBag({NewEffect("")})     \* the effect runs on mount
    /\ calls = EmptyBag
    /\ view = SourceView(NoSource.content, NoNode.line)
    /\ window = [elapsed |-> 0, emitted |-> <<>>, cancelled |-> FALSE]
    /\ latest = [id |-> "", outcome |-> "none"]
    /\ last = Event("mount", "", NoRequest)

\* onChange of the search box: setQuery(value); the [query] effect is cleaned
\* up and runs again.  Setting the same value does not re-render.
setQuery(q) ==
    /\ q # query
    /\ BagCardinality(cleanup(effects)) < MaxEffects
    /\ query' = q
    /\ effects' = BagAdd(cleanup(effects), NewEffect(q))
    /\ window' = [elapsed |-> 0, emitted |-> <<>>, cancelled |-> Timers # {}]
    /\ last' = Event("setQuery", "", NoRequest)
    /\ UNCHANGED <<results, selected, graph, source, loading, depth, limit, error,
                   calls, latest>>
    /\ Render

\* time passes, never beyond the moment a pending timer is due
Tick ==
    /\ Timers # {}
    /\ \A e \in Timers : e.remaining > 0
    /\ LET due == CHOOSE r \in { e.remaining : e \in Timers } :
                      \A e \in Timers : r <= e.remaining
           step == Min(TimeStep, due)
       IN /\ effects' = BagMap(effects, LAMBDA e :
                           IF e.st = "timer"
                           THEN [e EXCEPT !.remaining = e.remaining - step] ELSE e)
          /\ window' = [window EXCEPT !.elapsed = @ + step]
    /\ last' = Event("tick", "", NoRequest)
    /\ UNCHANGED <<state, calls, latest>>
    /\ Render

\* the setTimeout callback: searchFunctions(query) is sent
searchTimeout(e) ==
    /\ e \in Timers
    /\ e.remaining = 0
    /\ effects' = BagAdd(BagRemove(effects, e), [e EXCEPT !.st = "inflight"])
    /\ window' = [window EXCEPT !.emitted = Append(@, e.query)]
    /\ last' = Event("search", "", NoRequest)
    /\ UNCHANGED <<state, calls, latest>>
    /\ Render

\* .then((data) => { if (!active) return; setResults(data.results || []) })
searchResolved(e, res) ==
    /\ e \in InFlightSearches
    /\ ~request(res).threw
    /\ results' = IF e.active THEN SearchResponse(e.query).results ELSE results
    /\ effects' = BagRemove(effects, e)
    /\ last' = Settle(IF e.active THEN "searchOk" ELSE "searchStale", res)
    /\ UNCHANGED <<query, selected, graph, source, loading, depth, limit, error,
                   calls, window, latest>>
    /\ Render

\* mutant: a failed search empties the result list
searchRejectedClears(e, res) ==
    /\ e \in InFlightSearches
    /\ request(res).threw
    /\ error' = IF e.active THEN request(res).message ELSE error
    /\ results' = IF e.active THEN <<>> ELSE results
    /\ effects' = BagRemove(effects, e)
    /\ last' = Settle(IF e.active THEN "searchFail" ELSE "searchStale", res)
    /\ UNCHANGED <<query, selected, graph, source, loading, depth, limit,
                   calls, window, latest>>
    /\ Render

\* .catch((err) => { if (!active) return; setError(err.message) })
searchRejected(e, res) ==
    /\ e \in InFlightSearches
    /\ request(res).threw
    /\ error' = IF e.active THEN request(res).message ELSE error
    /\ effects' = BagRemove(effects, e)
    /\ last' = Settle(IF e.active THEN "searchFail" ELSE "searchStale", res)
    /\ UNCHANGED <<query, results, selected, graph, source, loading, depth, limit,
                   calls, window, latest>>
    /\ Render

\* ---------------------------------------------------------------- loadGraph
\* `newest` is history: no later loadGraph call has been made
NewCall(functionId) ==
    [pc |-> "awaitSubgraph", id |-> functionId, file |-> NoFile, newest |-> TRUE]
Superseded(C) == BagMap(C, LAMBDA c : [c EXCEPT !.newest = FALSE])

\* loadGraph up to `await fetchSubgraph(functionId, depth, limit)`
loadGraph(functionId) ==
    /\ BagCardinality(calls) < MaxCalls
    /\ loading' = TRUE
    /\ error' = ""
    /\ calls' = BagAdd(Superseded(calls), NewCall(functionId))
    /\ latest' = [id |-> functionId, outcome |-> "pending"]
    /\ last' = Event("loadGraph", "", fetchSubgraph(functionId, depth, limit))
    /\ UNCHANGED <<query, results, selected, graph, source, depth, limit,
                   effects, window>>
    /\ Render

onSelectResult(item) == loadGraph(item.id)

\* mutant: a click on the selected node, or a click while loading, is ignored
onNodeClickGuarded(node) ==
    /\ node.id # ""
    /\ node.id # selected.id
    /\ ~loading
    /\ loadGraph(node.id)

onNodeClick(node) ==
    /\ node.id # ""
    /\ loadGraph(node.id)

Links(edges) == MapSeq(edges, LAMBDA edge : Edge(edge.source, edge.target))

\* history: the outcome of the newest call's subgraph fetch
Settled(c, outcome) == IF c.newest THEN [latest EXCEPT !.outcome = outcome] ELSE latest

\* mutant: setSelected(data.root) is left out
subgraphResolvedKeepsSelected(c, res, data) ==
    /\ c \in BagToSet(calls)
    /\ c.pc = "awaitSubgraph"
    /\ ~request(res).threw
    /\ data \in SubgraphResponses(c.id)
    /\ graph' = [nodes |-> data.nodes, links |-> Links(data.edges)]
    /\ IF data.root.file # NoFile
       THEN /\ calls' = BagAdd(BagRemove(calls, c),
                               [c EXCEPT !.pc = "awaitSource", !.file = data.root.file])
            /\ UNCHANGED <<source, loading>>
       ELSE /\ source' = NoSource
            /\ loading' = FALSE
            /\ calls' = BagRemove(calls, c)
    /\ latest' = Settled(c, "ok")
    /\ last' = Settle("subgraphOk", res)
    /\ UNCHANGED <<query, results, selected, depth, limit, error, effects, window>>
    /\ Render

\* mutant: setSource(null) is left out when the root has no file
subgraphResolvedKeepsSource(c, res, data) ==
    /\ c \in BagToSet(calls)
    /\ c.pc = "awaitSubgraph"
    /\ ~request(res).threw
    /\ data \in SubgraphResponses(c.id)
    /\ graph' = [nodes |-> data.nodes, links |-> Links(data.edges)]
    /\ selected' = data.root
    /\ IF data.root.file # NoFile
       THEN /\ calls' = BagAdd(BagRemove(calls, c),
                               [c EXCEPT !.pc = "awaitSource", !.file = data.root.file])
            /\ UNCHANGED <<source, loading>>
       ELSE /\ source' = source
            /\ loading' = FALSE
            /\ calls' = BagRemove(calls, c)
    /\ latest' = Settled(c, "ok")
    /\ last' = Settle("subgraphOk", res)
    /\ UNCHANGED <<query, results, depth, limit, error, effects, window>>
    /\ Render

\* the subgraph fetch resolves: setGraph, setSelected, then either
\* `await fetchSource(data.root.file)` or setSource(null) and the finally block
subgraphResolved(c, res, data) ==
    /\ c \in BagToSet(calls)
    /\ c.pc = "awaitSubgraph"
    /\ ~request(res).threw
    /\ data \in SubgraphResponses(c.id)
    /\ graph' = [nodes |-> data.nodes, links |-> Links(data.edges)]
    /\ selected' = data.root
    /\ IF data.root.file # NoFile
       THEN /\ calls' = BagAdd(BagRemove(calls, c),
                               [c EXCEPT !.pc = "awaitSource", !.file = data.root.file])
            /\ UNCHANGED <<source, loading>>
       ELSE /\ source' = NoSource
            /\ loading' = FALSE
            /\ calls' = BagRemove(calls, c)
    /\ latest' = Settled(c, "ok")
    /\ last' = Settle("subgraphOk", res)
    /\ UNCHANGED <<query, results, depth, limit, error, effects, window>>
    /\ Render

\* mutant: a failed navigation blanks the view
subgraphRejectedResets(c, res) ==
    /\ c \in BagToSet(calls)
    /\ c.pc = "awaitSubgraph"
    /\ request(res).threw
    /\ error' = request(res).message
    /\ loading' = FALSE
    /\ graph' = [nodes |-> <<>>, links |-> <<>>]
    /\ selected' = NoNode
    /\ calls' = BagRemove(calls, c)
    /\ latest' = Settled(c, "fail")
    /\ last' = Settle("subgraphFail", res)
    /\ UNCHANGED <<query, results, source, depth, limit, effects, window>>
    /\ Render

\* the subgraph fetch rejects: catch { setError } finally { setLoading(false) }
subgraphRejected(c, res) ==
    /\ c \in BagToSet(calls)
    /\ c.pc = "awaitSubgraph"
    /\ request(res).threw
    /\ error' = request(res).message
    /\ loading' = FALSE
    /\ calls' = BagRemove(calls, c)
    /\ latest' = Settled(c, "fail")
    /\ last' = Settle("subgraphFail", res)
    /\ UNCHANGED <<query, results, selected, graph, source, depth, limit,
                   effects, window>>
    /\ Render

\* the source fetch resolves: setSource(sourceData), finally { setLoading(false) }
sourceResolved(c, res) ==
    /\ c \in BagToSet(calls)
    /\ c.pc = "awaitSource"
    /\ ~request(res).threw
    /\ source' = SourceDocument(c.file)
    /\ loading' = FALSE
    /\ calls' = BagRemove(calls, c)
    /\ last' = Settle("sourceOk", res)
    /\ UNCHANGED <<query, results, selected, graph, depth, limit, error,
                   effects, window, latest>>
    /\ Render

\* mutant: the finally block is left out of a failed source fetch
sourceRejectedKeepsLoading(c, res) ==
    /\ c \in BagToSet(calls)
    /\ c.pc = "awaitSource"
    /\ request(res).threw
    /\ error' = request(res).message
    /\ calls' = BagRemove(calls, c)
    /\ last' = Settle("sourceFail", res)
    /\ UNCHANGED <<query, results, selected, graph, source, loading, depth, limit,
                   effects, window, latest>>
    /\ Render

\* the source fetch rejects: catch { setError } finally { setLoading(false) }
sourceRejected(c, res) ==
    /\ c \in BagToSet(calls)
    /\ c.pc = "awaitSource"
    /\ request(res).threw
    /\ error' = request(res).message
    /\ loading' = FALSE
    /\ calls' = BagRemove(calls, c)
    /\ last' = Settle("sourceFail", res)
    /\ UNCHANGED <<query, results, selected, graph, source, depth, limit,
                   effects, window, latest>>
    /\ Render

\* ------------------------------------------------------------- parameters
setDepth(text) ==
    /\ depth' = Number(text)
    /\ last' = Event("setDepth", "", NoRequest)
    /\ UNCHANGED <<query, results, selected, graph, source, loading, limit, error,
                   effects, calls, window, latest>>
    /\ Render

setLimit(text) ==
    /\ limit' = Number(text)
    /\ last' = Event("setLimit", "", NoRequest)
    /\ UNCHANGED <<query, results, selected, graph, source, loading, depth, error,
                   effects, calls, window, latest>>
    /\ Render

\* typing in the search box and the debounced search
Search ==
    \/ Tick
    \/ \E e \in BagToSet(effects) : searchTimeout(e)
    \/ \E e \in BagToSet(effects), res \in Responses : searchResolved(e, res)
    \/ \E e \in BagToSet(effects), res \in Responses : searchRejected(e, res)

\* picking a result or clicking a node, and the loadGraph calls
Select ==
    \/ \E i \in 1..Len(results) : onSelectResult(results[i])
    \/ \E i \in 1..Len(graph.nodes) : onNodeClick(graph.nodes[i])
    \/ \E c \in BagToSet(calls), res \in Responses :
           \E data \in SubgraphResponses(c.id) : subgraphResolved(c, res, data)
    \/ \E c \in BagToSet(calls), res \in Responses : subgraphRejected(c, res)
    \/ \E c \in BagToSet(calls), res \in Responses : sourceResolved(c, res)
    \/ \E c \in BagToSet(calls), res \in Responses : sourceRejected(c, res)

Params ==
    \/ \E text \in DepthTexts : setDepth(text)
    \/ \E text \in LimitTexts : setLimit(text)

\* the whole program
Next ==
    \/ \E q \in Queries : setQuery(q)
    \/ Search
    \/ Select
    \/ Params

Spec == Init /\ [][Next]_vars

\* The search box and the selection share no state but error, so the program
\* is checked in two parts.  SpecSearch: the user only types.
NextSearch == (\E q \in Queries : setQuery(q)) \/ Search
SpecSearch == Init /\ [][NextSearch]_vars

\* SpecSelect: the query stays empty (the search of the mount effect runs), the
\* user picks results, clicks nodes and edits the parameters.
NextSelect == Search \/ Select \/ Params
SpecSelect == Init /\ [][NextSelect]_vars

\* SpecBrowse: the user types "foo" into the search box and picks results and
\* nodes while searches are pending; the parameters keep their defaults.
NextBrowse == setQuery("foo") \/ Search \/ Select
SpecBrowse == Init /\ [][NextBrowse]_vars

\* SpecQuiesce: the search of the mount effect and the selections of the user,
\* with the scheduling the runtime gives: a pending timer fires once its delay
\* has passed, and every request that was sent is answered, with a response or
\* with a failure.
timerFires == Tick \/ \E e \in BagToSet(effects) : searchTimeout(e)
searchSettles ==
    \E e \in BagToSet(effects), res \in Responses :
        searchResolved(e, res) \/ searchRejected(e, res)
subgraphSettles ==
    \E c \in BagToSet(calls), res \in Responses :
        \/ \E data \in SubgraphResponses(c.id) : subgraphResolved(c, res, data)
        \/ subgraphRejected(c, res)
sourceSettles ==
    \E c \in BagToSet(calls), res \in Responses :
        sourceResolved(c, res) \/ sourceRejected(c, res)
Fairness ==
    /\ WF_vars(timerFires)
    /\ WF_vars(searchSettles)
    /\ WF_vars(subgraphSettles)
    /\ WF_vars(sourceSettles)
NextQuiesce == Search \/ Select
SpecQuiesce == Init /\ [][NextQuiesce]_vars /\ Fairness

\* SpecSourceView: SourceView alone, rendered once for every content of up to
\* MaxLen characters (also the empty text of an empty file) and every
\* highlightLine up to MaxLine (also none).
RECURSIVE Texts(_)
Texts(n) ==
    IF n = 0 THEN { <<>> }
    ELSE Texts(n - 1) \cup { Append(t, ch) : t \in Texts(n - 1), ch \in {"a", "\n"} }

InitSourceView ==
    /\ query = ""
    /\ results = <<>>
    /\ source \in {NoSource} \cup { [loaded |-> TRUE, content |-> t] : t \in Texts(MaxLen) }
    /\ selected \in {NoNode} \cup
                    { [id |-> "A", file |-> "a.go", line |-> l] : l \in {NoLine} \cup 1..MaxLine }
    /\ graph = [nodes |-> <<>>, links |-> <<>>]
    /\ loading = FALSE
    /\ depth = DEFAULT_DEPTH
    /\ limit = DEFAULT_LIMIT
    /\ error = ""
    /\ effects = EmptyBag
    /\ calls = EmptyBag
    /\ view = SourceView(NoSource.content, NoNode.line)
    /\ window = [elapsed |-> 0, emitted |-> <<>>, cancelled |-> FALSE]
    /\ latest = [id |-> "", outcome |-> "none"]
    /\ last = Event("mount", "", NoRequest)

renderSourceView ==
    /\ last' = Event("render", "", NoRequest)
    /\ UNCHANGED <<state, effects, calls, window, latest>>
    /\ Render

SpecSourceView == InitSourceView /\ [][renderSourceView]_vars

\* -------------------------------------------------------------- rendering
\* graphNodes: every node of the graph with isSelected
graphNodes ==
    MapSeq(graph.nodes, LAMBDA node :
        [id |-> node.id, file |-> node.file, line |-> node.line,
         isSelected |-> selected.id = node.id])

\* nodePaint: the fill colour and the radius of a node
nodePaint(node) ==
    LET isCaller == \E i \in 1..Len(graph.links) :
                        graph.links[i].target = node.id /\ graph.links[i].source = selected.id
        isCallee == \E i \in 1..Len(graph.links) :
                        graph.links[i].source = selected.id /\ graph.links[i].target = node.id
    IN [color |-> IF node.isSelected THEN "#ffd66b"
                  ELSE IF isCaller THEN "#ff8f6b"
                  ELSE IF isCallee THEN "#6bf7b0"
                  ELSE "#6cc2ff",
        radius |-> IF node.isSelected THEN 10 ELSE 6]

\* ===================================================================== claims
AwaitingSubgraph == { c \in BagToSet(calls) : c.pc = "awaitSubgraph" }

\* C1: when selectNode(A) and then selectNode(B) were issued and every subgraph
\* fetch has resolved, the newest call having succeeded, the selected node (the
\* root of the loaded subgraph) is the node of the newest call, whatever the
\* order of the responses.
C1_NewestSelectionWins ==
    (AwaitingSubgraph = {} /\ latest.outcome = "ok") => selected.id = latest.id

\* C2: a search response, success or failure, changes results or error only if
\* it is the response of the effect of the current query; a response of an
\* effect that was cleaned up changes neither, and results only ever become the
\* response to the current query.
C2_StaleSearchDiscarded ==
    [][ /\ \A e \in InFlightSearches :
              (effects' = BagRemove(effects, e) /\ ~(e.active /\ e.query = query))
                  => (results' = results /\ error' = error)
        /\ results' # results => results' = SearchResponse(query).results
      ]_vars

\* C2 witness: "foo" was superseded by "bar", results hold the response to
\* "bar", and the late response to "foo" has just been discarded.
C2_Witness ==
    /\ last.op = "searchStale"
    /\ query = "bar"
    /\ results = SearchResponse("bar").results

\* C3: a selectNode whose subgraph fetch fails leaves graph, selected and
\* source as they were, both when it is issued and when it fails; the failure
\* sets error to the failure message and loading to false.
C3_FailedSelectionKeepsView ==
    [][ /\ last'.op = "loadGraph" => UNCHANGED <<graph, selected, source>>
        /\ last'.op = "subgraphFail" =>
              /\ UNCHANGED <<graph, selected, source>>
              /\ error' = last'.msg
              /\ error' # ""
              /\ loading' = FALSE
      ]_vars

\* C3 witness: A is loaded with its source, then selectNode(B) has failed.
C3_Witness ==
    /\ last.op = "subgraphFail"
    /\ latest = [id |-> "B", outcome |-> "fail"]
    /\ selected.id = "A"
    /\ source = SourceDocument("a.go")
    /\ graph.nodes # <<>>
    /\ error # ""
    /\ ~loading

\* C4: whenever a source document is held, the selected node has a file and
\* the document is the one fetched for that file.
C4_SourceMatchesSelection ==
    source.loaded =>
        /\ selected.file # NoFile
        /\ source = SourceDocument(selected.file)

\* C5: while the debounce window of the last input is open, no request has been
\* sent and exactly one timer is pending, for the current query, due
\* SEARCH_DELAY after the input; once it has fired exactly one request has been
\* sent, SEARCH_DELAY after the input, with the current query.
C5_DebounceCoalescing ==
    /\ BagCardinality(effects) - BagCardinality(clearTimeout(effects)) <= 1
    /\ \A e \in Timers :
          /\ e.query = query
          /\ e.remaining = SEARCH_DELAY - window.elapsed
          /\ window.emitted = <<>>
    /\ Timers = {} =>
          /\ window.emitted = <<query>>
          /\ window.elapsed = SEARCH_DELAY

\* C5 witness: an input cancelled the pending timer of an earlier one, and the
\* single request of the burst has been sent.
C5_Witness ==
    /\ window.cancelled
    /\ window.emitted = <<query>>
    /\ query = "bar"

\* C6: when the chained source fetch of a selection has failed, the subgraph
\* and the selected node are in place and no source document is held.
C6_SourceFailureClearsSource ==
    last.op = "sourceFail" =>
        /\ graph.nodes # <<>>
        /\ selected # NoNode
        /\ ~source.loaded

\* C7: every rendered node is painted in the colour of exactly the role given
\* by the precedence selected > caller (an edge node -> selected) > callee (an
\* edge selected -> node) > default.
C7_RolePrecedence ==
    \A i \in 1..Len(graphNodes) :
        LET n == graphNodes[i]
            HasEdge(a, b) == \E k \in 1..Len(graph.links) :
                                 graph.links[k].source = a /\ graph.links[k].target = b
            role == IF n.id = selected.id THEN "selected"
                    ELSE IF HasEdge(n.id, selected.id) THEN "caller"
                    ELSE IF HasEdge(selected.id, n.id) THEN "callee"
                    ELSE "default"
        IN nodePaint(n).color =
               CASE role = "selected" -> "#ffd66b"
                 [] role = "caller" -> "#ff8f6b"
                 [] role = "callee" -> "#6bf7b0"
                 [] OTHER -> "#6cc2ff"

\* C8: whenever a search, subgraph or source fetch is in flight, loading is true.
C8_LoadingWhileFetching ==
    (InFlightSearches # {} \/ calls # EmptyBag) => loading

\* C9: every link of the rendered graph has its source and its target among
\* the graph's nodes.
C9_EdgesWithinNodes ==
    \A k \in 1..Len(graph.links) :
        /\ \E i \in 1..Len(graph.nodes) : graph.nodes[i].id = graph.links[k].source
        /\ \E i \in 1..Len(graph.nodes) : graph.nodes[i].id = graph.links[k].target

\* C10: setDepth and setLimit send no request and change nothing but their
\* parameter; a loadGraph call sends the depth and limit current when it is made.
C10_ParametersTakeEffectOnNextSelect ==
    [][ /\ last'.op = "setDepth" =>
              UNCHANGED <<query, results, selected, graph, source, loading, limit, error,
                          effects, calls>>
        /\ last'.op = "setLimit" =>
              UNCHANGED <<query, results, selected, graph, source, loading, depth, error,
                          effects, calls>>
        /\ last'.op = "loadGraph" =>
              /\ last'.req.depth = depth /\ last'.req.limit = limit
              /\ UNCHANGED <<depth, limit>>
      ]_vars

\* C10 witness: both parameters were changed while A was loaded, and the next
\* selection has just been requested with the new values.
C10_Witness ==
    /\ last.op = "loadGraph"
    /\ last.req = [id |-> "B", depth |-> 3, limit |-> 10]
    /\ selected.id = "A"
    /\ depth = 3 /\ limit = 10

OkOps == {"searchOk", "subgraphOk", "sourceOk"}
FailOps == {"searchFail", "subgraphFail", "sourceFail"}
SearchOps == {"setQuery", "tick", "search", "searchOk", "searchFail", "searchStale"}

\* C11: a failed search of the current query sets error to the failure message
\* and leaves results, graph, selected and source as they were; no step of the
\* search (typing, waiting, sending, any response) changes graph, selected or
\* source.
C11_SearchFailureKeepsResults ==
    [][ /\ last'.op = "searchFail" =>
              /\ error' = last'.msg
              /\ error' # ""
              /\ UNCHANGED <<results, graph, selected, source>>
        /\ last'.op \in SearchOps => UNCHANGED <<graph, selected, source>>
      ]_vars

\* C11 witness: results are listed, A is loaded with its source, and the search
\* for the new query has just failed.
C11_Witness ==
    /\ last.op = "searchFail"
    /\ query = "foo"
    /\ results = SearchResponse("").results
    /\ selected.id = "A"
    /\ graph.nodes # <<>>
    /\ source = SourceDocument("a.go")
    /\ error = last.msg /\ error # ""

\* C12: once an operation (a search, a subgraph fetch or a source fetch) has
\* completed successfully, error is empty: no failure message outlives the
\* next success.
C12_ErrorUntilNextSuccess ==
    last.op \in OkOps => error = ""

\* C13: picking any listed result and clicking any rendered node is possible
\* in every state (as long as fewer than MaxCalls calls are suspended), also
\* while loading and for the node already selected; the step leaves exactly one
\* new call awaiting the subgraph of that node.
C13_SelectAlwaysFetches ==
    /\ BagCardinality(calls) < MaxCalls =>
          /\ \A i \in 1..Len(results) : ENABLED onSelectResult(results[i])
          /\ \A i \in 1..Len(graph.nodes) : ENABLED onNodeClick(graph.nodes[i])
    /\ last.op = "loadGraph" =>
          /\ CopiesIn(NewCall(last.req.id), calls) = 1
          /\ \A c \in BagToSet(calls) : c.newest => c = NewCall(last.req.id)

\* C13 witness: A is selected and a fetch is still in flight (loading) when A
\* is selected again, and the new request for A has been sent.
C13_Witness ==
    /\ last.op = "loadGraph"
    /\ last.req.id = "A"
    /\ selected.id = "A"
    /\ BagCardinality(calls) = 2
    /\ loading

\* C14: a response with a status outside 200..299 makes the request fail with
\* the body as message when the body is not empty and with "Request failed: "
\* followed by the status otherwise, and that message is what the handler puts
\* into error; a response with a 2xx status fails no request and sets no error.
C14_RequestFailedMessage ==
    [][ LET res == last'.res
            expected == IF res.body # "" THEN res.body
                        ELSE IF res.status = 500 THEN "Request failed: 500"
                        ELSE IF res.status = 404 THEN "Request failed: 404"
                        ELSE "Request failed: " \o ToString(res.status)
        IN res # NoResponse =>
              IF res.status >= 200 /\ res.status <= 299
              THEN /\ last'.op \in OkOps \cup {"searchStale"}
                   /\ last'.msg = ""
                   /\ error' = error
              ELSE /\ last'.op \in FailOps \cup {"searchStale"}
                   /\ last'.msg = expected
                   /\ last'.op \in FailOps => error' = expected
      ]_vars

\* C14 witness: with a graph loaded, a subgraph fetch has just failed with
\* status 404 and the body "not found", which is shown as the error.
C14_Witness ==
    /\ last.op = "subgraphFail"
    /\ last.res = [status |-> 404, body |-> "not found"]
    /\ error = "not found"
    /\ graph.nodes # <<>>

\* the view shows the n lines of the document numbered 1..n in order, none
\* spanning a line break, with exactly the line selected.line highlighted when
\* 1 <= selected.line <= n and none otherwise
RendersLines ==
    LET content == source.content
        n == 1 + Cardinality({ i \in 1..Len(content) : content[i] = "\n" })
        highlighted == { i \in 1..Len(view.rows) : view.rows[i].isHighlight }
    IN /\ ~view.empty
       /\ Len(view.rows) = n
       /\ \A i \in 1..n :
             /\ view.rows[i].lineNumber = i
             /\ \A k \in 1..Len(view.rows[i].text) : view.rows[i].text[k] # "\n"
       /\ highlighted = IF selected.line >= 1 /\ selected.line <= n
                        THEN {selected.line} ELSE {}

\* C15 (as stated): rendered for a source document and a highlightLine, a
\* document that is not absent shows its lines numbered and highlighted as
\* above; an absent document shows the placeholder.
C15_SourceViewHighlight ==
    last.op = "render" => IF source.loaded THEN RendersLines ELSE view.empty

\* C15 (amended): a document with a non-empty content shows its lines numbered
\* and highlighted as above; an absent document and a document with an empty
\* content show the placeholder.
C15_SourceViewHighlightNonEmpty ==
    last.op = "render" => IF source.content # <<>> THEN RendersLines ELSE view.empty

\* C15 witness: a text of two lines rendered with highlightLine 2, and the
\* second row is the highlighted one.
C15_Witness ==
    /\ last.op = "render"
    /\ source.content = <<"a", "\n", "a">>
    /\ selected.line = 2
    /\ Len(view.rows) = 2
    /\ view.rows[2].isHighlight /\ ~view.rows[1].isHighlight

\* C16: in every state selected is absent exactly when no subgraph is loaded,
\* and otherwise the graph and selected are those of one response to a request
\* for selected; every step that changes the graph or selected sets both from
\* the one response of a call in flight, however the calls overlap.
C16_AtomicSelectionUpdate ==
    /\ [](IF selected = NoNode
          THEN graph = [nodes |-> <<>>, links |-> <<>>]
          ELSE \E data \in SubgraphResponses(selected.id) :
                   /\ graph = [nodes |-> data.nodes, links |-> Links(data.edges)]
                   /\ selected = data.root)
    /\ [][ (graph' # graph \/ selected' # selected) =>
               \E c \in AwaitingSubgraph : \E data \in SubgraphResponses(c.id) :
                   /\ graph' = [nodes |-> data.nodes, links |-> Links(data.edges)]
                   /\ selected' = data.root
         ]_vars

\* C16 witness: two calls overlapped and the response to the older one has
\* just replaced the graph and selected together.
C16_Witness ==
    /\ last.op = "subgraphOk"
    /\ latest.id # selected.id
    /\ graph.nodes # <<>>
    /\ \E data \in SubgraphResponses(selected.id) :
           graph = [nodes |-> data.nodes, links |-> Links(data.edges)]

\* C17: when a fetch of a loadGraph call completes, with success or with a
\* failure, after a newer loadGraph call was made, the completion changes none
\* of graph, selected, source, error and loading.
C17_SupersededHasNoEffect ==
    [][ (\E c \in BagToSet(calls) :
             ~c.newest /\ CopiesIn(c, calls') < CopiesIn(c, calls))
            => UNCHANGED <<graph, selected, source, error, loading>>
      ]_vars

\* the loadGraph calls waiting for their source fetch
AwaitingSource(C) ==
    LET waiting == { c \in BagToSet(C) : c.pc = "awaitSource" }
    IN  [c \in waiting |-> CopiesIn(c, C)]

\* C18: a source fetch starts only in the step in which the subgraph fetch of
\* the same call has resolved, and only for the file of the returned root; none
\* starts when the subgraph fetch fails or the root has no file, and in the
\* latter case source becomes absent.
C18_ChainedFetchOrdering ==
    /\ [](\A c \in BagToSet(calls) : c.pc = "awaitSource" => c.file # NoFile)
    /\ [][ LET issued == BagCardinality(AwaitingSource(calls')) >
                         BagCardinality(AwaitingSource(calls))
           IN /\ issued =>
                    /\ last'.op = "subgraphOk"
                    /\ selected'.file # NoFile
                    /\ \E c \in AwaitingSubgraph :
                          /\ selected' = NodeOf(c.id)
                          /\ calls' = BagAdd(BagRemove(calls, c),
                                 [c EXCEPT !.pc = "awaitSource", !.file = selected'.file])
              /\ last'.op = "subgraphFail" => ~issued
              /\ (last'.op = "subgraphOk" /\ selected'.file = NoFile) =>
                    ~issued /\ source' = NoSource
         ]_vars

\* C18 witness: the subgraph fetch for node C, which has no file, has just
\* resolved; no source fetch is in flight and source is absent.
C18_Witness ==
    /\ last.op = "subgraphOk"
    /\ selected = NodeOf("C")
    /\ selected.file = NoFile
    /\ source = NoSource
    /\ BagCardinality(AwaitingSource(calls)) = 0

\* C19: in every state depth and limit are at least 1, and a subgraph request
\* is sent with depth and limit at least 1.
C19_ParameterBounds ==
    /\ depth >= 1
    /\ limit >= 1
    /\ last.op = "loadGraph" => (last.req.depth >= 1 /\ last.req.limit >= 1)

\* the steps of the user: typing a query, picking a result, clicking a node
InputOps == {"setQuery", "loadGraph"}
\* no timer pending, no request in flight, and the loading indicator is off
Quiet == effects = EmptyBag /\ calls = EmptyBag /\ ~loading

\* C20: if from some point on the user makes no input, then, every request
\* being answered, the program reaches a state with no request in flight and
\* loading false and stays there; and every step in which a loadGraph call
\* ends, after a success or a failure of either fetch, sets loading to false.
C20_Quiescence ==
    /\ (<>[][last'.op \notin InputOps]_vars) => <>[]Quiet
    /\ [][BagCardinality(calls') < BagCardinality(calls) => loading' = FALSE]_vars

\* C20 witness: a loadGraph call has just ended with a failed source fetch,
\* and nothing is pending and loading is false.
C20_Witness ==
    /\ last.op = "sourceFail"
    /\ Quiet
    /\ error # ""
====
